---- MODULE Spec2Model ----
(***************************************************************************)
(* Model of the Minimal DS API client (crates api_client and types).       *)
(*                                                                         *)
(* State: the sessions (ApiClient values) produced by register, the calls  *)
(* awaiting their reply, the DS-side message queue, and history variables  *)
(* recording what fetch_messages handed to the caller and how the most     *)
(* recent call ended.  Every public operation is one "send" step (local    *)
(* validation, request construction, the outbound call) and one "complete" *)
(* step (the reply, send_message's classification of it, and the           *)
(* operation's own handling of the decoded response).                      *)
(*                                                                         *)
(* Wire values are sequences of bytes (0..255); the codecs are computed on *)
(* them the way tls_codec computes them.                                   *)
(***************************************************************************)
EXTENDS Integers, Sequences, FiniteSets, Bags, TLC

(***************************************************************************)
(* Bounds of the model.                                                    *)
(***************************************************************************)
\* largest sequence number the DS assigns to a queued message
MaxSeq == 3
\* number of sessions register may produce
MaxSessions == 2
\* number of calls that may be awaiting their reply at the same time
MaxCalls == 2
\* number of bytes that may follow an encoded TlsUuid in a buffer
MaxRest == 3

(***************************************************************************)
(* Program constants.                                                      *)
(***************************************************************************)
UUID_LENGTH == 16
AUTH_TOKEN_LENGTH == 32
NUMBER_OF_MESSAGES == 100
STATUS_OK == 200
STATUS_INTERNAL_SERVER_ERROR == 500
STATUS_NOT_FOUND == 404

(***************************************************************************)
(* Results and byte-string helpers.                                        *)
(***************************************************************************)
Ok(v) == [ok |-> TRUE, val |-> v]
Err(e) == [ok |-> FALSE, err |-> e]
\* a decoded value together with the bytes that follow it
Parsed(v, r) == [ok |-> TRUE, val |-> v, rest |-> r]

Rep(n, b) == [i \in 1..n |-> b]
Take(s, n) == SubSeq(s, 1, n)
Drop(s, n) == SubSeq(s, n + 1, Len(s))

RECURSIVE BigEndian(_)
BigEndian(bs) ==
  IF Len(bs) = 0 THEN 0
  ELSE BigEndian(Take(bs, Len(bs) - 1)) * 256 + bs[Len(bs)]

RECURSIVE ToBigEndian(_, _)
ToBigEndian(n, width) ==
  IF width = 0 THEN <<>>
  ELSE Append(ToBigEndian(n \div 256, width - 1), n % 256)

(***************************************************************************)
(* tls_codec primitives used by the derived codecs.                        *)
(***************************************************************************)
\* fixed-width unsigned integers (u8, u16, u32, u64), big-endian
ReadUint(bytes, width) ==
  IF Len(bytes) < width THEN Err("EndOfStream")
  ELSE Parsed(BigEndian(Take(bytes, width)), Drop(bytes, width))

\* the variable-length length prefix of VLBytes and Vec<T>
WriteVarLen(n) ==
  IF n < 64 THEN <<n>>
  ELSE IF n < 16384 THEN <<64 + (n \div 256), n % 256>>
  ELSE <<128 + (n \div 16777216)>> \o ToBigEndian(n % 16777216, 3)

ReadVarLen(bytes) ==
  IF Len(bytes) = 0 THEN Err("EndOfStream")
  ELSE LET p == bytes[1] \div 64
           n == 2 ^ p
       IN IF p = 3 THEN Err("InvalidVectorLength")
          ELSE IF Len(bytes) < n THEN Err("EndOfStream")
          ELSE LET v == BigEndian(<<bytes[1] % 64>> \o SubSeq(bytes, 2, n))
               IN IF (p = 1 /\ v < 64) \/ (p = 2 /\ v < 16384)
                  THEN Err("InvalidVectorLength")
                  ELSE Parsed(v, Drop(bytes, n))

\* VLBytes / Vec<u8>: length prefix, then that many bytes
WriteVLBytes(content) == WriteVarLen(Len(content)) \o content

\* the bytes counted by a length prefix that has been read
ReadCounted(l) ==
  IF ~l.ok THEN l
  ELSE IF Len(l.rest) < l.val THEN Err("EndOfStream")
  ELSE Parsed(Take(l.rest, l.val), Drop(l.rest, l.val))

ReadVLBytes(bytes) == ReadCounted(ReadVarLen(bytes))

\* a Vec<T> from its length-prefixed content and the items read from it
VecFrom(content, items) ==
  IF ~content.ok THEN content
  ELSE IF ~items.ok THEN items
  ELSE Parsed(items.val, content.rest)

\* collecting items in order: the first failure is the result
Prepend(first, more) ==
  IF ~first.ok THEN first
  ELSE IF ~more.ok THEN more
  ELSE Ok(<<first.val>> \o more.val)

\* an exact decode that lets bytes after the value pass
ExactIgnoringRest(parsed) ==
  IF ~parsed.ok THEN parsed
  ELSE Ok(parsed.val)

\* tls_deserialize_exact_bytes: the value must use up the buffer
Exact(parsed) ==
  IF ~parsed.ok THEN parsed
  ELSE IF Len(parsed.rest) # 0 THEN Err("TrailingData")
  ELSE Ok(parsed.val)

(***************************************************************************)
(* types/src/lib.rs: identifiers, tokens and queue messages.               *)
(***************************************************************************)
\* a decoder that wants at least one byte after the identifier
TlsUuidDeserializeBytesGreedy(bytes) ==
  IF Len(bytes) <= UUID_LENGTH THEN Err("EndOfStream")
  ELSE Parsed(Take(bytes, UUID_LENGTH), Drop(bytes, UUID_LENGTH))

\* TlsUuid as DeserializeBytes: the first UUID_LENGTH bytes, and the rest
TlsUuidDeserializeBytes(bytes) ==
  IF Len(bytes) < UUID_LENGTH THEN Err("EndOfStream")
  ELSE Parsed(Take(bytes, UUID_LENGTH), Drop(bytes, UUID_LENGTH))

\* TlsUuid as Serialize: the raw bytes of the id
TlsUuidSerialize(id) == id

\* a conversion that takes every identity of at most UUID_LENGTH bytes,
\* padding it with zeros
DsClientIdTryFromAtMost(bytes) ==
  IF Len(bytes) > UUID_LENGTH THEN Err([type |-> "InvalidUuid"])
  ELSE Ok(bytes \o Rep(UUID_LENGTH - Len(bytes), 0))

\* Uuid::from_slice, as used by TryFrom<&[u8]> for DsClientId
DsClientIdTryFrom(bytes) ==
  IF Len(bytes) # UUID_LENGTH THEN Err([type |-> "InvalidUuid"])
  ELSE Ok(bytes)

\* a lenient reading of a credential: whatever bytes follow the length
\* prefix, cut or padded to the length of a UUID
FromSerializedCredentialLenient(serialized_credential) ==
  LET bytes == Drop(serialized_credential, 1)
  IN Ok(Take(bytes \o Rep(UUID_LENGTH, 0), UUID_LENGTH))

\* DsClientId::from_serialized_credential
\* the `?` on the identity and the conversion that follows it
DsClientIdFromIdentity(identity) ==
  IF ~identity.ok
  THEN Err([type |-> "InvalidCredential", codec |-> identity.err])
  ELSE DsClientIdTryFrom(identity.val)

FromSerializedCredential(serialized_credential) ==
  DsClientIdFromIdentity(Exact(ReadVLBytes(serialized_credential)))

\* AuthToken { token: [u8; 32] }
AuthTokenDeserializeBytes(bytes) ==
  IF Len(bytes) < AUTH_TOKEN_LENGTH THEN Err("EndOfStream")
  ELSE Parsed(Take(bytes, AUTH_TOKEN_LENGTH), Drop(bytes, AUTH_TOKEN_LENGTH))

\* ClientCredentials { client_id, token } on the wire
ClientCredentialsSerialize(c) == TlsUuidSerialize(c.client_id) \o c.token

\* MlsMessageIn::tls_deserialize_exact_bytes, as far as this crate depends on
\* it: a u16 protocol version (MLS 1.0 = 1), a u16 wire format (1..5) and the
\* body, which is carried here as one opaque length-prefixed string.
MlsMessageInFrom(version, wire, body) ==
  IF ~version.ok THEN version
  ELSE IF version.val # 1 THEN Err("UnknownValue")
  ELSE IF ~wire.ok THEN wire
  ELSE IF wire.val \notin 1..5 THEN Err("UnknownValue")
  ELSE IF ~body.ok THEN body
  ELSE Ok([wire_format |-> wire.val, body |-> body.val])

MlsMessageInDeserialize(bytes) ==
  MlsMessageInFrom(ReadUint(bytes, 2), ReadUint(Drop(bytes, 2), 2),
                   Exact(ReadVLBytes(Drop(bytes, 4))))

\* DsQueueMessage::deserialize
DsQueueMessageDeserialize(message) == MlsMessageInDeserialize(message)

\* NumberedDsQueueMessage { message: DsQueueMessage, sequence_number: u64 }
NumberedDsQueueMessageSerialize(m) ==
  WriteVLBytes(m.message) \o ToBigEndian(m.sequence_number, 8)

NumberedDsQueueMessageFrom(message, seq) ==
  IF ~message.ok THEN message
  ELSE IF ~seq.ok THEN seq
  ELSE Parsed([message |-> message.val, sequence_number |-> seq.val], seq.rest)

NumberedDsQueueMessageDeserializeBytes(bytes) ==
  LET message == ReadVLBytes(bytes)
  IN NumberedDsQueueMessageFrom(message, ReadUint(message.rest, 8))

RECURSIVE ConcatAll(_)
ConcatAll(chunks) ==
  IF Len(chunks) = 0 THEN <<>> ELSE Head(chunks) \o ConcatAll(Tail(chunks))

\* FetchMessagesResponse { messages: Vec<NumberedDsQueueMessage> }
FetchMessagesResponseSerialize(messages) ==
  WriteVLBytes(ConcatAll([i \in 1..Len(messages) |->
                            NumberedDsQueueMessageSerialize(messages[i])]))

RECURSIVE ReadMessages(_)
ReadMessages(content) ==
  IF Len(content) = 0 THEN Ok(<<>>)
  ELSE LET m == NumberedDsQueueMessageDeserializeBytes(content)
       IN Prepend(m, ReadMessages(m.rest))

FetchMessagesResponseDeserializeBytes(bytes) ==
  LET content == ReadVLBytes(bytes)
  IN VecFrom(content, ReadMessages(content.val))

\* Vec<DsClientId>
RECURSIVE ReadClientIds(_)
ReadClientIds(content) ==
  IF Len(content) = 0 THEN Ok(<<>>)
  ELSE LET id == TlsUuidDeserializeBytes(content)
       IN Prepend(id, ReadClientIds(id.rest))

ClientIdsDeserializeBytes(bytes) ==
  LET content == ReadVLBytes(bytes)
  IN VecFrom(content, ReadClientIds(content.val))

\* Option<KeyPackageIn>: one byte 0 (None) or 1 (Some), then the key package,
\* carried here as one opaque length-prefixed string.
KeyPackageOptionFrom(flag, kp) ==
  IF ~flag.ok THEN flag
  ELSE IF flag.val = 0 THEN Parsed([some |-> FALSE], flag.rest)
  ELSE IF flag.val # 1 THEN Err("DecodingError")
  ELSE IF ~kp.ok THEN kp
  ELSE Parsed([some |-> TRUE, key_package |-> kp.val], kp.rest)

KeyPackageOptionDeserializeBytes(bytes) ==
  KeyPackageOptionFrom(ReadUint(bytes, 1), ReadVLBytes(Drop(bytes, 1)))

(***************************************************************************)
(* api_client/src/requests.rs: the response envelope.                      *)
(***************************************************************************)
\* position of each variant of MinimalDsResponseIn in declaration order
ResponseDiscriminant(tag) ==
  CASE tag = "Ok" -> 0
    [] tag = "AuthToken" -> 1
    [] tag = "KeyPackageOption" -> 2
    [] tag = "FetchMessages" -> 3
    [] tag = "ListClients" -> 4

\* MinimalDsResponseIn as DeserializeBytes
\* a variant from its tag and the field read after the discriminant
Variant(tag, field) ==
  IF ~field.ok THEN field
  ELSE Parsed(CASE tag = "AuthToken" -> [tag |-> tag, token |-> field.val]
                [] tag = "KeyPackageOption" -> [tag |-> tag, option |-> field.val]
                [] tag = "FetchMessages" -> [tag |-> tag, messages |-> field.val]
                [] tag = "ListClients" -> [tag |-> tag, ids |-> field.val],
              field.rest)

MinimalDsResponseInDeserializeBytes(bytes) ==
  LET d == ReadUint(bytes, 1)
  IN IF ~d.ok THEN d
     ELSE IF d.val = 0 THEN Parsed([tag |-> "Ok"], d.rest)
     ELSE IF d.val = 1
          THEN Variant("AuthToken", AuthTokenDeserializeBytes(d.rest))
     ELSE IF d.val = 2
          THEN Variant("KeyPackageOption", KeyPackageOptionDeserializeBytes(d.rest))
     ELSE IF d.val = 3
          THEN Variant("FetchMessages", FetchMessagesResponseDeserializeBytes(d.rest))
     ELSE IF d.val = 4
          THEN Variant("ListClients", ClientIdsDeserializeBytes(d.rest))
     ELSE Err("UnknownValue")

\* enum MinimalDsMessageOut: the variants in declaration order
MinimalDsMessageOut ==
  <<"RegisterClient", "UploadKeyPackages", "ListClients", "CreateGroup",
    "FetchKeyPackage", "DistributeGroupMessage", "DistributeWelcome",
    "FetchMessages", "DeleteGroup", "DeleteClient">>

\* discriminants counted from one
RequestDiscriminantFromOne(variant) ==
  CHOOSE i \in DOMAIN MinimalDsMessageOut : MinimalDsMessageOut[i] = variant

\* #[repr(u8)] without explicit values: a variant's discriminant is its
\* position in the declaration, counted from zero
RequestDiscriminant(variant) ==
  (CHOOSE i \in DOMAIN MinimalDsMessageOut : MinimalDsMessageOut[i] = variant) - 1

\* MinimalDsMessageOut as TlsSerialize: the discriminant byte, then the
\* variant's fields in declaration order. The fields are kept as values,
\* since the MLS messages among them are encoded by openmls.
MinimalDsMessageOutSerialize(message) ==
  [discriminant |-> <<RequestDiscriminant(message.variant)>>,
   fields |-> [f \in DOMAIN message \ {"variant"} |-> message[f]]]

\* the bytes a DS writes for a response (the inverse layout of the above)
MinimalDsResponseSerialize(r) ==
  <<ResponseDiscriminant(r.tag)>> \o
  (CASE r.tag = "Ok" -> <<>>
     [] r.tag = "AuthToken" -> r.token
     [] r.tag = "KeyPackageOption" ->
          IF r.option.some THEN <<1>> \o WriteVLBytes(r.option.key_package)
          ELSE <<0>>
     [] r.tag = "FetchMessages" -> FetchMessagesResponseSerialize(r.messages)
     [] r.tag = "ListClients" -> WriteVLBytes(ConcatAll(r.ids)))


(***************************************************************************)
(* Inputs and the environment.                                             *)
(***************************************************************************)
\* identities embedded in key packages: two UUIDs, the two-byte identity
\* 0x0102, an identity one byte over UUID_LENGTH
IdA == Rep(UUID_LENGTH, 161)
IdB == Rep(UUID_LENGTH, 178)
ClientIds == {IdA, IdB}
Identities == {IdA, IdB, <<1, 2>>, Rep(UUID_LENGTH + 1, 195)}

\* serialized credential contents: each identity as a BasicCredential, one
\* cut short and one followed by a stray byte
SerializedCredentials ==
  {WriteVLBytes(i) : i \in Identities}
    \cup {Take(WriteVLBytes(IdA), UUID_LENGTH), WriteVLBytes(IdA) \o <<0>>}

\* MlsMessageOut values handed to the operations: the body kind, and for a
\* key package the serialized content of its leaf node's credential
KeyPackageMessage(credential) ==
  [body |-> "KeyPackage", serialized_content |-> credential]
WelcomeMessage == [body |-> "Welcome"]
GroupInfoMessage == [body |-> "GroupInfo"]
PublicMessage(content_type) == [body |-> "PublicMessage", content_type |-> content_type]
PrivateMessage == [body |-> "PrivateMessage"]

LastResortKeyPackages ==
  {KeyPackageMessage(c) : c \in SerializedCredentials} \cup {WelcomeMessage}

\* tokens the DS issues
Tokens == {Rep(AUTH_TOKEN_LENGTH, 1), Rep(AUTH_TOKEN_LENGTH, 2)}

\* payloads the DS queues: a public message, a private message and a payload
\* with an unknown wire format
PayloadGood == <<0, 1, 0, 1>> \o WriteVLBytes(<<7>>)
PayloadPrivate == <<0, 1, 0, 2>> \o WriteVLBytes(<<8>>)
PayloadBad == <<0, 1, 0, 9>> \o WriteVLBytes(<<7>>)
Payloads == {PayloadGood, PayloadPrivate, PayloadBad}

\* a body that is no UTF-8 text
NotUtf8 == <<255, 40>>

\* "group not found"
GroupNotFound == <<103, 114, 111, 117, 112, 32, 110, 111, 116, 32, 102, 111, 117, 110, 100>>

StatusCodes == {STATUS_OK, STATUS_INTERNAL_SERVER_ERROR, STATUS_NOT_FOUND}

(***************************************************************************)
(* State.                                                                  *)
(***************************************************************************)
VARIABLES
  \* the ApiClient values register has produced, in order of creation
  sessions,
  \* the calls awaiting their reply (a bag of call records)
  calls,
  \* the DS's queue of messages for the client, in ascending sequence order
  queue,
  \* per session: sequence numbers fetch_messages has returned to the caller
  delivered,
  \* per session: sequence numbers returned by more than one fetch_messages
  redelivered,
  \* how the most recent call ended
  last

vars == <<sessions, calls, queue, delivered, redelivered, last>>

\* owner of the calls made on the UnregisteredApiClient
Handle == 0

NoCall == [op |-> "none"]

Init ==
  /\ sessions = <<>>
  /\ calls = EmptyBag
  /\ queue = <<>>
  /\ delivered = <<>>
  /\ redelivered = <<>>
  /\ last = NoCall

(***************************************************************************)
(* The DS and the transport, as the client sees them.                      *)
(***************************************************************************)
Min(a, b) == IF a < b THEN a ELSE b

\* the queued messages strictly after the request's cursor, in ascending
\* sequence order, at most number_of_messages of them
Batch(request) ==
  LET after == SelectSeq(queue,
                 LAMBDA m : m.sequence_number > request.last_seen_sequence_number)
  IN Take(after, Min(Len(after), request.number_of_messages))

\* the typed responses a DS may write in reply to a call
Responses(c) ==
  {[tag |-> "Ok"],
   [tag |-> "KeyPackageOption", option |-> [some |-> FALSE]],
   [tag |-> "KeyPackageOption",
    option |-> [some |-> TRUE, key_package |-> WriteVLBytes(IdA)]],
   [tag |-> "FetchMessages",
    messages |-> IF c.op = "fetch_messages" THEN Batch(c.request) ELSE <<>>],
   [tag |-> "ListClients", ids |-> <<IdA, IdB>>]}
    \cup {[tag |-> "AuthToken", token |-> t] : t \in Tokens}

\* bodies that are no response envelope: empty, unknown discriminant, bytes
\* left over, a token cut short, an error text
Malformed ==
  {<<>>, <<5>>, <<0, 0>>, <<1>> \o Rep(AUTH_TOKEN_LENGTH - 1, 1), GroupNotFound}

\* what may come back for a call: no response at all, a response whose body
\* cannot be read, or a status with a body
Replies(c) ==
  {[kind |-> "send_failed", status |-> 0, body |-> <<>>]}
    \cup {[kind |-> "body_failed", status |-> st, body |-> <<>>] :
            st \in {STATUS_OK, STATUS_INTERNAL_SERVER_ERROR}}
    \cup {[kind |-> "received", status |-> STATUS_OK, body |-> b] :
            b \in {MinimalDsResponseSerialize(r) : r \in Responses(c)} \cup Malformed}
    \cup {[kind |-> "received", status |-> st, body |-> b] :
            st \in StatusCodes \ {STATUS_OK},
            b \in {GroupNotFound, NotUtf8, MinimalDsResponseSerialize([tag |-> "Ok"])}}

NoReply == [kind |-> "none", status |-> 0, body |-> <<>>]

\* Response::text: the body as text, undecodable bytes replaced by U+FFFD
Text(body) == [i \in DOMAIN body |-> IF body[i] < 128 THEN body[i] ELSE 65533]

\* the `?` on tls_deserialize_exact_bytes: a codec error becomes
\* SendMessageError::PayloadSerializationError
DecodedResponse(response) ==
  IF ~response.ok
  THEN Err([type |-> "PayloadSerializationError", codec |-> response.err])
  ELSE Ok(response.val)

\* a send_message that takes every status other than OK for a failure the DS
\* reports in the body
send_message_any_failure(reply) ==
  IF reply.kind = "send_failed" THEN Err([type |-> "ReqwestError"])
  ELSE IF reply.kind = "body_failed" THEN Err([type |-> "ReqwestError"])
  ELSE IF reply.status = STATUS_OK
       THEN DecodedResponse(Exact(MinimalDsResponseInDeserializeBytes(reply.body)))
  ELSE Err([type |-> "MinimalDsError", text |-> Text(reply.body)])

(***************************************************************************)
(* api_client/src/lib.rs: DsConnection::send_message, from the reply on.   *)
(***************************************************************************)
send_message(reply) ==
  IF reply.kind = "send_failed" THEN Err([type |-> "ReqwestError"])
  ELSE IF reply.status = STATUS_OK
       THEN IF reply.kind = "body_failed" THEN Err([type |-> "ReqwestError"])
            ELSE DecodedResponse(
                   Exact(MinimalDsResponseInDeserializeBytes(reply.body)))
  ELSE IF reply.status = STATUS_INTERNAL_SERVER_ERROR
       THEN IF reply.kind = "body_failed" THEN Err([type |-> "ReqwestError"])
            ELSE Err([type |-> "MinimalDsError", text |-> Text(reply.body)])
  ELSE Err([type |-> "NetworkError", status |-> reply.status])

(***************************************************************************)
(* What each operation does with send_message's result.                    *)
(***************************************************************************)
Unit == [tag |-> "unit"]

\* credentials that carry a default token instead of the session's
client_credentials_default_token(session) ==
  [client_id |-> session.client_id, token |-> Rep(AUTH_TOKEN_LENGTH, 0)]

\* ApiClient::client_credentials
client_credentials(session) ==
  [client_id |-> session.client_id, token |-> session.auth_token]

\* a register that takes every well-formed response for a registration
register_response_any_variant(client_id, sent) ==
  IF ~sent.ok THEN Err([type |-> "RegisterClientError", cause |-> sent.err])
  ELSE Ok([client_id |-> client_id,
           auth_token |-> IF sent.val.tag = "AuthToken" THEN sent.val.token
                          ELSE Rep(AUTH_TOKEN_LENGTH, 0),
           last_seen_message_sequence_number |-> 0])

\* UnregisteredApiClient::register, after the await
register_response(client_id, sent) ==
  IF ~sent.ok THEN Err([type |-> "RegisterClientError", cause |-> sent.err])
  ELSE IF sent.val.tag = "AuthToken"
       THEN Ok([client_id |-> client_id,
                auth_token |-> sent.val.token,
                last_seen_message_sequence_number |-> 0])
  ELSE Err([type |-> "UnexpectedResponse"])

\* upload_key_packages, create_group, distribute_group_message,
\* distribute_welcome, delete_group, delete_client, after the await:
\* `self.connection.send_message(message).await?; Ok(())`
ack_response(error_type, sent) ==
  IF ~sent.ok THEN Err([type |-> error_type, cause |-> sent.err])
  ELSE Ok(Unit)

\* list_clients, after the await
list_clients_response(sent) ==
  IF ~sent.ok THEN Err([type |-> "ListClientsError", cause |-> sent.err])
  ELSE IF sent.val.tag = "ListClients" THEN Ok(sent.val.ids)
  ELSE Err([type |-> "UnexpectedResponse"])

\* fetch_key_package, after the await
fetch_key_package_response(sent) ==
  IF ~sent.ok THEN Err([type |-> "FetchKeyPackageError", cause |-> sent.err])
  ELSE IF sent.val.tag = "KeyPackageOption" THEN Ok(sent.val.option)
  ELSE Err([type |-> "UnexpectedResponse"])

\* `.map(|m| m.message.deserialize()).collect::<Result<Vec<_>, _>>()`:
\* the decoded messages in order, or the first error
RECURSIVE CollectDeserialize(_)
CollectDeserialize(messages) ==
  IF Len(messages) = 0 THEN Ok(<<>>)
  ELSE Prepend(DsQueueMessageDeserialize(Head(messages).message),
               CollectDeserialize(Tail(messages)))

\* the `?` on the collected messages: a codec error becomes
\* FetchMessagesError::DeserializationError
CollectedMessages(decoded) ==
  IF ~decoded.ok
  THEN Err([type |-> "DeserializationError", codec |-> decoded.err])
  ELSE Ok(decoded.val)

\* a cursor taken from the first message of the batch
NextCursorFirst(session, messages) ==
  IF Len(messages) > 0 THEN messages[1].sequence_number ELSE 0

\* the cursor fetch_messages stores on a FetchMessages response
NextCursor(session, messages) ==
  IF Len(messages) > 0 THEN messages[Len(messages)].sequence_number ELSE 0

\* a fetch_messages that starts over from 0 when the exchange fails
fetch_messages_response_restart(session, sent) ==
  LET restarted == [session EXCEPT !.last_seen_message_sequence_number = 0]
  IN IF ~sent.ok
     THEN [session |-> restarted,
           result |-> Err([type |-> "FetchMessagesError", cause |-> sent.err])]
     ELSE IF sent.val.tag = "FetchMessages"
          THEN [session |-> [session EXCEPT !.last_seen_message_sequence_number =
                                              NextCursor(session, sent.val.messages)],
                result |-> CollectedMessages(CollectDeserialize(sent.val.messages))]
     ELSE [session |-> restarted, result |-> Err([type |-> "UnexpectedResponse"])]

\* fetch_messages, after the await: the session it leaves and what it returns
fetch_messages_response(session, sent) ==
  IF ~sent.ok
  THEN [session |-> session,
        result |-> Err([type |-> "FetchMessagesError", cause |-> sent.err])]
  ELSE IF sent.val.tag = "FetchMessages"
       THEN [session |-> [session EXCEPT !.last_seen_message_sequence_number =
                                           NextCursor(session, sent.val.messages)],
             result |-> CollectedMessages(CollectDeserialize(sent.val.messages))]
  ELSE [session |-> session, result |-> Err([type |-> "UnexpectedResponse"])]

(***************************************************************************)
(* Calls.  A call record holds what the suspended future holds: the        *)
(* operation, the handle or session it borrows, the request it sent, the   *)
(* number of requests it has sent, and for register the client id it       *)
(* derived before sending.                                                 *)
(***************************************************************************)
CallsOf(owner) == {c \in BagToSet(calls) : c.owner = owner}

\* fetch_messages taking `&self` like most operations
ExclusiveUploadOnly(op) == op \in {"upload_key_packages"}

\* operations that take `&mut self`
Exclusive(op) == op \in {"upload_key_packages", "fetch_messages"}

\* the borrow of the ApiClient a new call needs, given the calls that hold one
CanBorrow(s, op) ==
  /\ last = NoCall
  /\ s \in 1..Len(sessions)
  /\ BagCardinality(calls) < MaxCalls
  /\ IF Exclusive(op) THEN CallsOf(s) = {}
     ELSE \A c \in CallsOf(s) : ~Exclusive(c.op)

\* the call serializes its request, sends it and awaits the reply
Issue(owner, op, request) ==
  /\ calls' = calls (+) SetToBag({[op |-> op, owner |-> owner, request |-> request,
                                   sent |-> 1]})
  /\ UNCHANGED <<sessions, queue, delivered, redelivered, last>>

\* the call returns a local validation error before any request is built
Reject(owner, op, input, error) ==
  /\ last' = [op |-> op, owner |-> owner, requests |-> 0, reply |-> NoReply,
              result |-> Err(error), input |-> input,
              pre |-> IF owner = Handle THEN [sessions |-> Len(sessions)]
                      ELSE sessions[owner]]
  /\ UNCHANGED <<sessions, calls, queue, delivered, redelivered>>

\* a return that sends the request once more when the exchange has failed
ReturnRetryOnce(c, reply, sent, session, result) ==
  IF ~sent.ok /\ c.sent < 2
  THEN /\ calls' = (calls (-) SetToBag({c})) (+) SetToBag({[c EXCEPT !.sent = 2]})
       /\ UNCHANGED <<sessions, last>>
  ELSE /\ calls' = calls (-) SetToBag({c})
       /\ sessions' = [sessions EXCEPT ![c.owner] = session]
       /\ last' = [op |-> c.op, owner |-> c.owner, requests |-> c.sent,
                   reply |-> reply, response |-> sent, result |-> result,
                   request |-> c.request, pre |-> sessions[c.owner]]

\* a return that keeps one cursor for all the sessions of a handle
ReturnSharedCursor(c, reply, sent, session, result) ==
  /\ calls' = calls (-) SetToBag({c})
  /\ sessions' =
       [s \in DOMAIN sessions |->
          IF s = c.owner THEN session
          ELSE [sessions[s] EXCEPT !.last_seen_message_sequence_number =
                                     session.last_seen_message_sequence_number]]
  /\ last' = [op |-> c.op, owner |-> c.owner, requests |-> c.sent, reply |-> reply,
              response |-> sent, result |-> result,
              request |-> c.request, pre |-> sessions[c.owner]]

\* the call on session c.owner gets its reply, send_message returns `sent`
\* and the call returns `result`
Return(c, reply, sent, session, result) ==
  /\ calls' = calls (-) SetToBag({c})
  /\ sessions' = [sessions EXCEPT ![c.owner] = session]
  /\ last' = [op |-> c.op, owner |-> c.owner, requests |-> c.sent, reply |-> reply,
              response |-> sent, result |-> result,
              request |-> c.request, pre |-> sessions[c.owner]]

\* the calls of an operation whose reply may arrive: the caller has taken the
\* result of the call that returned before
Awaiting(op) == IF last = NoCall THEN {c \in BagToSet(calls) : c.op = op} ELSE {}

(***************************************************************************)
(* UnregisteredApiClient::register                                         *)
(***************************************************************************)
register ==
  \E last_resort_key_package \in LastResortKeyPackages :
    /\ last = NoCall
    /\ BagCardinality(calls) < MaxCalls
    /\ Len(sessions) + Cardinality(CallsOf(Handle)) < MaxSessions
    /\ IF last_resort_key_package.body # "KeyPackage"
       THEN Reject(Handle, "register", last_resort_key_package,
                   [type |-> "InvalidInput"])
       ELSE \E client_id \in
               {FromSerializedCredential(last_resort_key_package.serialized_content)} :
              IF ~client_id.ok
              THEN Reject(Handle, "register", last_resort_key_package,
                          [type |-> "InvalidClientId", cause |-> client_id.err])
              ELSE /\ calls' = calls (+) SetToBag({
                        [op |-> "register", owner |-> Handle,
                         request |-> [variant |-> "RegisterClient",
                                      last_resort_key_package |->
                                        last_resort_key_package],
                         sent |-> 1, client_id |-> client_id.val]})
                   /\ UNCHANGED <<sessions, queue, delivered, redelivered, last>>

register_await ==
  \E c \in Awaiting("register") : \E reply \in Replies(c) :
    \E sent \in {send_message(reply)} :
      \E result \in {register_response(c.client_id, sent)} :
        /\ calls' = calls (-) SetToBag({c})
        /\ sessions' = IF result.ok THEN Append(sessions, result.val) ELSE sessions
        /\ delivered' = IF result.ok THEN Append(delivered, {}) ELSE delivered
        /\ redelivered' = IF result.ok THEN Append(redelivered, {}) ELSE redelivered
        /\ last' = [op |-> "register", owner |-> Handle, requests |-> c.sent,
                    reply |-> reply, response |-> sent,
                    result |-> result, request |-> c.request,
                    pre |-> [sessions |-> Len(sessions)]]
        /\ UNCHANGED queue

(***************************************************************************)
(* impl ApiClient                                                          *)
(***************************************************************************)
upload_key_packages ==
  \E s \in 1..Len(sessions) :
    /\ CanBorrow(s, "upload_key_packages")
    /\ Issue(s, "upload_key_packages",
             [variant |-> "UploadKeyPackages",
              credentials |-> client_credentials(sessions[s])])

upload_key_packages_await ==
  \E c \in Awaiting("upload_key_packages") : \E reply \in Replies(c) :
    \E sent \in {send_message(reply)} :
      /\ Return(c, reply, sent, sessions[c.owner], ack_response("UploadKeyPackageError", sent))
      /\ UNCHANGED <<queue, delivered, redelivered>>

list_clients ==
  \E s \in 1..Len(sessions) :
    /\ CanBorrow(s, "list_clients")
    /\ Issue(s, "list_clients", [variant |-> "ListClients"])

list_clients_await ==
  \E c \in Awaiting("list_clients") : \E reply \in Replies(c) :
    \E sent \in {send_message(reply)} :
      /\ Return(c, reply, sent, sessions[c.owner], list_clients_response(sent))
      /\ UNCHANGED <<queue, delivered, redelivered>>

create_group ==
  \E s \in 1..Len(sessions) :
    /\ CanBorrow(s, "create_group")
    /\ Issue(s, "create_group",
             [variant |-> "CreateGroup",
              credentials |-> client_credentials(sessions[s])])

create_group_await ==
  \E c \in Awaiting("create_group") : \E reply \in Replies(c) :
    \E sent \in {send_message(reply)} :
      /\ Return(c, reply, sent, sessions[c.owner], ack_response("CreateGroupError", sent))
      /\ UNCHANGED <<queue, delivered, redelivered>>

fetch_key_package ==
  \E s \in 1..Len(sessions), client_id \in ClientIds :
    /\ CanBorrow(s, "fetch_key_package")
    /\ Issue(s, "fetch_key_package",
             [variant |-> "FetchKeyPackage", client_id |-> client_id])

fetch_key_package_await ==
  \E c \in Awaiting("fetch_key_package") : \E reply \in Replies(c) :
    \E sent \in {send_message(reply)} :
      /\ Return(c, reply, sent, sessions[c.owner], fetch_key_package_response(sent))
      /\ UNCHANGED <<queue, delivered, redelivered>>

\* AssistedMessageOut::new, as documented on distribute_group_message: the
\* message must be a public or private MLSMessage, and a commit needs the
\* group info
AssistedMessageOutNew(message, group_info_option) ==
  IF message.body \notin {"PublicMessage", "PrivateMessage"}
  THEN Err("InvalidMessage")
  ELSE IF message.body = "PublicMessage" /\ message.content_type = "commit"
          /\ ~group_info_option.some
       THEN Err("MissingGroupInfo")
  ELSE Ok([message |-> message, group_info_option |-> group_info_option])

GroupMessages ==
  {PublicMessage("commit"), PublicMessage("application"), PrivateMessage,
   WelcomeMessage}

GroupInfoOptions == {[some |-> FALSE], [some |-> TRUE, group_info |-> GroupInfoMessage]}

\* a distribute_group_message that wraps and sends every group message,
\* with or without the group info
distribute_group_message_lenient ==
  \E s \in 1..Len(sessions), message \in GroupMessages,
     group_info_option \in GroupInfoOptions :
    /\ CanBorrow(s, "distribute_group_message")
    /\ IF message.body \notin {"PublicMessage", "PrivateMessage"}
       THEN Reject(s, "distribute_group_message",
                   [message |-> message, group_info_option |-> group_info_option],
                   [type |-> "InvalidInput", reason |-> "InvalidMessage"])
       ELSE Issue(s, "distribute_group_message",
                  [variant |-> "DistributeGroupMessage",
                   credentials |-> client_credentials(sessions[s]),
                   message |-> [message |-> message,
                                group_info_option |-> group_info_option]])

distribute_group_message ==
  \E s \in 1..Len(sessions), message \in GroupMessages,
     group_info_option \in GroupInfoOptions :
    /\ CanBorrow(s, "distribute_group_message")
    /\ LET assisted == AssistedMessageOutNew(message, group_info_option)
       IN IF ~assisted.ok
          THEN Reject(s, "distribute_group_message",
                      [message |-> message, group_info_option |-> group_info_option],
                      [type |-> "InvalidInput", reason |-> assisted.err])
          ELSE Issue(s, "distribute_group_message",
                     [variant |-> "DistributeGroupMessage",
                      credentials |-> client_credentials(sessions[s]),
                      message |-> assisted.val])

distribute_group_message_await ==
  \E c \in Awaiting("distribute_group_message") : \E reply \in Replies(c) :
    \E sent \in {send_message(reply)} :
      /\ Return(c, reply, sent, sessions[c.owner], ack_response("DistributeGroupMessageError", sent))
      /\ UNCHANGED <<queue, delivered, redelivered>>

\* messages handed to distribute_welcome
WelcomeInputs ==
  {WelcomeMessage, PublicMessage("application"), PrivateMessage, GroupInfoMessage,
   KeyPackageMessage(WriteVLBytes(IdA))}

\* a distribute_welcome that sends whatever message it is given
distribute_welcome_unchecked ==
  \E s \in 1..Len(sessions), message \in WelcomeInputs :
    /\ CanBorrow(s, "distribute_welcome")
    /\ Issue(s, "distribute_welcome",
             [variant |-> "DistributeWelcome", message |-> message])

distribute_welcome ==
  \E s \in 1..Len(sessions), message \in WelcomeInputs :
    /\ CanBorrow(s, "distribute_welcome")
    /\ IF message.body # "Welcome"
       THEN Reject(s, "distribute_welcome", message, [type |-> "InvalidInput"])
       ELSE Issue(s, "distribute_welcome",
                  [variant |-> "DistributeWelcome", message |-> message])

distribute_welcome_await ==
  \E c \in Awaiting("distribute_welcome") : \E reply \in Replies(c) :
    \E sent \in {send_message(reply)} :
      /\ Return(c, reply, sent, sessions[c.owner], ack_response("DistributeWelcomeError", sent))
      /\ UNCHANGED <<queue, delivered, redelivered>>

\* a fetch_messages that moves the cursor past the batch it asks for when it
\* sends the request
fetch_messages_speculative ==
  \E s \in 1..Len(sessions) :
    /\ CanBorrow(s, "fetch_messages")
    /\ calls' = calls (+) SetToBag({[op |-> "fetch_messages", owner |-> s,
                                     request |->
                                       [variant |-> "FetchMessages",
                                        credentials |-> client_credentials(sessions[s]),
                                        last_seen_sequence_number |->
                                          sessions[s].last_seen_message_sequence_number,
                                        number_of_messages |-> NUMBER_OF_MESSAGES],
                                     sent |-> 1]})
    /\ sessions' = [sessions EXCEPT ![s].last_seen_message_sequence_number =
                                      NUMBER_OF_MESSAGES]
    /\ UNCHANGED <<queue, delivered, redelivered, last>>

fetch_messages ==
  \E s \in 1..Len(sessions) :
    /\ CanBorrow(s, "fetch_messages")
    /\ Issue(s, "fetch_messages",
             [variant |-> "FetchMessages",
              credentials |-> client_credentials(sessions[s]),
              last_seen_sequence_number |->
                sessions[s].last_seen_message_sequence_number,
              number_of_messages |-> NUMBER_OF_MESSAGES])

\* sequence numbers of the messages of a FetchMessages response
SequenceNumbers(messages) ==
  {messages[i].sequence_number : i \in 1..Len(messages)}

fetch_messages_await ==
  \E c \in Awaiting("fetch_messages") : \E reply \in Replies(c) :
    \E sent \in {send_message(reply)} :
      \E out \in {fetch_messages_response(sessions[c.owner], sent)} :
        LET returned ==
              IF out.result.ok THEN SequenceNumbers(sent.val.messages) ELSE {}
        IN /\ Return(c, reply, sent, out.session, out.result)
           /\ delivered' = [delivered EXCEPT ![c.owner] = @ \cup returned]
           /\ redelivered' = [redelivered EXCEPT ![c.owner] =
                                @ \cup (returned \cap delivered[c.owner])]
           /\ UNCHANGED queue

delete_group ==
  \E s \in 1..Len(sessions) :
    /\ CanBorrow(s, "delete_group")
    /\ Issue(s, "delete_group",
             [variant |-> "DeleteGroup",
              credentials |-> client_credentials(sessions[s])])

delete_group_await ==
  \E c \in Awaiting("delete_group") : \E reply \in Replies(c) :
    \E sent \in {send_message(reply)} :
      /\ Return(c, reply, sent, sessions[c.owner], ack_response("DeleteGroupError", sent))
      /\ UNCHANGED <<queue, delivered, redelivered>>

delete_client ==
  \E s \in 1..Len(sessions), client_id \in ClientIds :
    /\ CanBorrow(s, "delete_client")
    /\ Issue(s, "delete_client",
             [variant |-> "DeleteClient",
              credentials |-> client_credentials(sessions[s]),
              client_id |-> client_id])

delete_client_await ==
  \E c \in Awaiting("delete_client") : \E reply \in Replies(c) :
    \E sent \in {send_message(reply)} :
      /\ Return(c, reply, sent, sessions[c.owner], ack_response("DeleteClientError", sent))
      /\ UNCHANGED <<queue, delivered, redelivered>>

\* the caller drops the future of a call before its reply arrives
Abandon ==
  \E c \in BagToSet(calls) :
    /\ last = NoCall
    /\ calls' = calls (-) SetToBag({c})
    /\ UNCHANGED <<sessions, queue, delivered, redelivered, last>>

\* the caller takes the result of the call that returned and goes on
Continue ==
  /\ last # NoCall
  /\ last' = NoCall
  /\ UNCHANGED <<sessions, calls, queue, delivered, redelivered>>

\* the DS queues one more message for the client, with the next sequence
\* number or the one after it
LastSeq == IF Len(queue) = 0 THEN 0 ELSE queue[Len(queue)].sequence_number

DsEnqueue ==
  \E payload \in Payloads, n \in 1..MaxSeq :
    /\ last = NoCall
    /\ n > LastSeq
    /\ n <= LastSeq + 2
    /\ queue' = Append(queue, [message |-> payload, sequence_number |-> n])
    /\ UNCHANGED <<sessions, calls, delivered, redelivered, last>>

Next ==
  \/ register
  \/ register_await
  \/ upload_key_packages
  \/ upload_key_packages_await
  \/ list_clients
  \/ list_clients_await
  \/ create_group
  \/ create_group_await
  \/ fetch_key_package
  \/ fetch_key_package_await
  \/ distribute_group_message
  \/ distribute_group_message_await
  \/ distribute_welcome
  \/ distribute_welcome_await
  \/ fetch_messages
  \/ fetch_messages_await
  \/ delete_group
  \/ delete_group_await
  \/ delete_client
  \/ delete_client_await
  \/ Abandon
  \/ Continue
  \/ DsEnqueue

\* the whole client: the handle, the sessions registered from it, every
\* operation and the DS's queue.  The specifications below are the parts of
\* it that are model-checked.
Spec == Init /\ [][Next]_vars

\* the handle and its register calls
NextRegister ==
  \/ register
  \/ register_await
  \/ Abandon
  \/ Continue

SpecRegister == Init /\ [][NextRegister]_vars

\* one session, as register returns it
InitRegistered ==
  /\ \E client_id \in ClientIds, token \in Tokens :
       sessions = <<[client_id |-> client_id, auth_token |-> token,
                     last_seen_message_sequence_number |-> 0]>>
  /\ calls = EmptyBag
  /\ queue = <<>>
  /\ delivered = <<{}>>
  /\ redelivered = <<{}>>
  /\ last = NoCall

\* one session and its fetch_messages calls, against a DS whose queue grows
NextFetch ==
  \/ fetch_messages
  \/ fetch_messages_await
  \/ Abandon
  \/ Continue
  \/ DsEnqueue

SpecFetch == InitRegistered /\ [][NextFetch]_vars

\* one session, as register returns it, with messages already queued for it
InitialQueues ==
  {<<[message |-> PayloadGood, sequence_number |-> 1]>>,
   <<[message |-> PayloadGood, sequence_number |-> 1],
     [message |-> PayloadBad, sequence_number |-> 3]>>}

InitClient ==
  /\ \E c \in {<<IdA, Rep(AUTH_TOKEN_LENGTH, 1)>>, <<IdB, Rep(AUTH_TOKEN_LENGTH, 2)>>} :
       sessions = <<[client_id |-> c[1], auth_token |-> c[2],
                     last_seen_message_sequence_number |-> 0]>>
  /\ calls = EmptyBag
  /\ queue \in InitialQueues
  /\ delivered = <<{}>>
  /\ redelivered = <<{}>>
  /\ last = NoCall

\* one session and every operation of ApiClient, called concurrently as far
\* as the borrows allow, against a DS whose queue stays as it is
NextClient ==
  \/ upload_key_packages
  \/ upload_key_packages_await
  \/ list_clients
  \/ list_clients_await
  \/ create_group
  \/ create_group_await
  \/ fetch_key_package
  \/ fetch_key_package_await
  \/ distribute_group_message
  \/ distribute_group_message_await
  \/ distribute_welcome
  \/ distribute_welcome_await
  \/ fetch_messages
  \/ fetch_messages_await
  \/ delete_group
  \/ delete_group_await
  \/ delete_client
  \/ delete_client_await
  \/ Abandon
  \/ Continue

SpecClient == InitClient /\ [][NextClient]_vars

\* the handle before any register call, with one message already queued at
\* the DS
InitLifecycle ==
  /\ sessions = <<>>
  /\ calls = EmptyBag
  /\ queue = <<[message |-> PayloadGood, sequence_number |-> 1]>>
  /\ delivered = <<>>
  /\ redelivered = <<>>
  /\ last = NoCall

\* no call is awaiting its reply: the program makes one call at a time
Idle == calls = EmptyBag

\* the operations of ApiClient, called one at a time
NextSequentialClient ==
  \/ Idle /\ upload_key_packages
  \/ upload_key_packages_await
  \/ Idle /\ list_clients
  \/ list_clients_await
  \/ Idle /\ create_group
  \/ create_group_await
  \/ Idle /\ fetch_key_package
  \/ fetch_key_package_await
  \/ Idle /\ distribute_group_message
  \/ distribute_group_message_await
  \/ Idle /\ distribute_welcome
  \/ distribute_welcome_await
  \/ Idle /\ fetch_messages
  \/ fetch_messages_await
  \/ Idle /\ delete_group
  \/ delete_group_await
  \/ Idle /\ delete_client
  \/ delete_client_await
  \/ Abandon
  \/ Continue

\* the handle, the sessions registered from it and every operation on them,
\* each call awaited before the next one is made, against a DS whose queue
\* stays as it is
NextLifecycle ==
  \/ Idle /\ register
  \/ register_await
  \/ NextSequentialClient

SpecLifecycle == InitLifecycle /\ [][NextLifecycle]_vars

\* a program that calls register until it has a session and then uses that
\* session, one call at a time
NextOneSession ==
  \/ Idle /\ Len(sessions) = 0 /\ register
  \/ Len(sessions) = 0 /\ register_await
  \/ NextSequentialClient

SpecOneSession == InitLifecycle /\ [][NextOneSession]_vars

(***************************************************************************)
(* The TlsUuid codec on its own: a buffer is drawn, an identifier is       *)
(* written and buffers are read.                                           *)
(***************************************************************************)
\* identifiers: the two client ids and one whose bytes all differ
Uuids == ClientIds \cup {[i \in 1..UUID_LENGTH |-> i]}

\* what may follow an identifier in a buffer
Rests == UNION {[1..k -> {0, 255}] : k \in 0..MaxRest}

\* buffers: every prefix of an identifier, and every identifier followed by
\* up to MaxRest bytes
Buffers ==
  {Take(id, n) : id \in Uuids, n \in 0..UUID_LENGTH}
    \cup {id \o rest : id \in Uuids, rest \in Rests}

InitTlsUuid ==
  /\ sessions = <<>>
  /\ calls = EmptyBag
  /\ queue = <<>>
  /\ delivered = <<>>
  /\ redelivered = <<>>
  /\ last \in {[op |-> "none", buffer |-> b] : b \in Buffers}

\* TlsUuid::tls_serialize into an empty Vec, for a buffer that is an
\* identifier (From<Uuid>)
tls_serialize ==
  /\ last.op = "none"
  /\ last.buffer \in Uuids
  /\ last' = [op |-> "tls_serialize", id |-> last.buffer,
              written |-> TlsUuidSerialize(last.buffer)]
  /\ UNCHANGED <<sessions, calls, queue, delivered, redelivered>>

\* TlsUuid::tls_deserialize_bytes, on the buffer drawn or on the bytes just
\* written
tls_deserialize_bytes ==
  /\ last.op \in {"none", "tls_serialize"}
  /\ \E bytes \in {IF last.op = "none" THEN last.buffer ELSE last.written} :
       last' = [op |-> "tls_deserialize_bytes", after |-> last,
                bytes |-> bytes, result |-> TlsUuidDeserializeBytes(bytes)]
  /\ UNCHANGED <<sessions, calls, queue, delivered, redelivered>>

NextTlsUuid ==
  \/ tls_serialize
  \/ tls_deserialize_bytes

SpecTlsUuid == InitTlsUuid /\ [][NextTlsUuid]_vars

(***************************************************************************)
(* Claims.  `last` describes the call that has just returned: the session  *)
(* before it (pre), the reply, send_message's result (response) and the    *)
(* result handed to the caller.                                            *)
(***************************************************************************)
cursor(session) == session.last_seen_message_sequence_number

\* a fetch_messages call has just returned after its exchange
FetchReturned == last.op = "fetch_messages" /\ last.requests = 1

\* ... and the exchange brought a FetchMessages response
FetchGotBatch ==
  FetchReturned /\ last.response.ok /\ last.response.val.tag = "FetchMessages"

LastBatch == last.response.val.messages

Undecodable(messages) ==
  {i \in 1..Len(messages) : ~DsQueueMessageDeserialize(messages[i].message).ok}

\* C1: against a DS that answers a fetch only with messages after the
\* request's cursor, no fetch_messages call, whatever its outcome, leaves the
\* cursor below its value before the call.
C1_CursorNeverDecreases ==
  FetchReturned => cursor(sessions[last.owner]) >= cursor(last.pre)

\* C2: a FetchMessages response with an empty batch leaves the cursor as it
\* was and the call returns an empty sequence.
C2_EmptyBatchKeepsCursor ==
  (FetchGotBatch /\ Len(LastBatch) = 0) =>
    /\ cursor(sessions[last.owner]) = cursor(last.pre)
    /\ last.result.ok
    /\ Len(last.result.val) = 0

\* C3: a FetchMessages response with a payload that fails to decode makes the
\* whole call fail and leaves the cursor at its value before the call.
C3_DecodeFailureKeepsCursor ==
  (FetchGotBatch /\ Undecodable(LastBatch) # {}) =>
    /\ ~last.result.ok
    /\ cursor(sessions[last.owner]) = cursor(last.pre)

\* C4: when fetch_messages succeeds with a non-empty batch, the cursor is the
\* sequence number of the batch's last message, and the call returns the
\* decoded payload of every batch entry, in the order of the batch.
C4_SuccessAdvancesToLast ==
  (FetchGotBatch /\ last.result.ok /\ Len(LastBatch) > 0) =>
    /\ cursor(sessions[last.owner]) = LastBatch[Len(LastBatch)].sequence_number
    /\ Len(last.result.val) = Len(LastBatch)
    /\ \A i \in 1..Len(LastBatch) :
         MlsMessageInDeserialize(LastBatch[i].message) = Ok(last.result.val[i])

\* a fetch from a cursor above 0 has returned a batch of several messages
C4_Witness ==
  /\ FetchGotBatch
  /\ last.result.ok
  /\ cursor(last.pre) > 0
  /\ Len(LastBatch) >= 2
  /\ last.result.val[1] # last.result.val[2]
  /\ cursor(sessions[last.owner]) = MaxSeq

\* C5: every queued message at or below a session's cursor has been returned
\* to the caller by a successful fetch_messages call.
C5_NoMessageLost ==
  \A s \in 1..Len(sessions) : \A i \in 1..Len(queue) :
    queue[i].sequence_number <= cursor(sessions[s])
      => queue[i].sequence_number \in delivered[s]

\* C6: no queued message is returned by two successful fetch_messages calls
\* of the same session.
C6_NoMessageTwice ==
  \A s \in 1..Len(sessions) : redelivered[s] = {}

\* a call has just returned after one exchange with the DS
Exchanged == last # NoCall /\ last.requests = 1

\* the response variant each operation expects
Expected(op) ==
  CASE op = "register" -> "AuthToken"
    [] op = "list_clients" -> "ListClients"
    [] op = "fetch_key_package" -> "KeyPackageOption"
    [] op = "fetch_messages" -> "FetchMessages"
    [] OTHER -> "Ok"

\* the exchange brought a well-formed response of another variant
WrongVariant == last.response.ok /\ last.response.val.tag # Expected(last.op)

\* C7: when the exchange of an ApiClient operation fails (no reply, a status
\* other than OK, a body that is no response envelope, or a response of an
\* unexpected variant), the session after the call equals the session before.
C7_FailedExchangeKeepsSession ==
  (Exchanged /\ (~last.response.ok \/ WrongVariant)) =>
    sessions[last.owner] = last.pre

\* a fetch of a session whose cursor has advanced got a response of another
\* variant
C7_Witness ==
  /\ Exchanged
  /\ last.op = "fetch_messages"
  /\ WrongVariant
  /\ cursor(last.pre) > 0
  /\ ~last.result.ok

\* C8: every operation reports a well-formed response of the wrong variant as
\* its UnexpectedResponse error, never as success.
C8_WrongVariantIsUnexpectedResponse ==
  (Exchanged /\ WrongVariant) =>
    /\ ~last.result.ok
    /\ last.result.err.type = "UnexpectedResponse"

\* C9: send_message classifies a reply by its status alone: OK decodes the
\* body as a response envelope, INTERNAL_SERVER_ERROR yields MinimalDsError
\* with the body's text unchanged, any other status yields NetworkError with
\* that status, and only OK ever yields a response.
C9_StatusClassifies ==
  (Exchanged /\ last.reply.kind = "received") =>
    LET status == last.reply.status
        body == last.reply.body
        decoded == Exact(MinimalDsResponseInDeserializeBytes(body))
    IN /\ status = STATUS_OK =>
            IF decoded.ok THEN last.response = Ok(decoded.val)
            ELSE /\ ~last.response.ok
                 /\ last.response.err.type = "PayloadSerializationError"
       /\ status = STATUS_INTERNAL_SERVER_ERROR =>
            /\ last.response = Err([type |-> "MinimalDsError", text |-> Text(body)])
            /\ body = GroupNotFound => last.response.err.text = GroupNotFound
       /\ status \notin {STATUS_OK, STATUS_INTERNAL_SERVER_ERROR} =>
            last.response = Err([type |-> "NetworkError", status |-> status])

\* the DS answered with a status that is neither OK nor INTERNAL_SERVER_ERROR
\* and a body that would decode as the Ok response
C9_Witness ==
  /\ Exchanged
  /\ last.reply.kind = "received"
  /\ last.reply.status = STATUS_NOT_FOUND
  /\ Exact(MinimalDsResponseInDeserializeBytes(last.reply.body)).ok
  /\ last.response = Err([type |-> "NetworkError", status |-> STATUS_NOT_FOUND])

\* key packages whose credential is the encoding of a client identifier
ValidLastResortKeyPackages ==
  {KeyPackageMessage(WriteVLBytes(id)) :
     id \in {i \in Identities : Len(i) = UUID_LENGTH}}

RegisterInput ==
  IF last.requests = 0 THEN last.input ELSE last.request.last_resort_key_package

\* C10: register with a message that is no key package, or whose credential
\* is no client identifier, returns InvalidInput or InvalidClientId, sends no
\* request and produces no session.
C10_InvalidRegisterSendsNothing ==
  /\ \A c \in BagToSet(calls) :
       c.op = "register" =>
         c.request.last_resort_key_package \in ValidLastResortKeyPackages
  /\ (last.op = "register" /\ RegisterInput \notin ValidLastResortKeyPackages) =>
       /\ last.requests = 0
       /\ ~last.result.ok
       /\ last.result.err.type =
            IF RegisterInput.body = "KeyPackage" THEN "InvalidClientId"
            ELSE "InvalidInput"
       /\ Len(sessions) = last.pre.sessions

\* register has rejected a key package whose credential holds an identity of
\* the wrong length, while an earlier register call is still in flight
C10_Witness ==
  /\ last.op = "register"
  /\ last.requests = 0
  /\ last.input.body = "KeyPackage"
  /\ last.result.err = [type |-> "InvalidClientId", cause |-> [type |-> "InvalidUuid"]]
  /\ BagCardinality(calls) = 1

\* the identity a key package's credential encodes
EmbeddedIdentity(key_package) ==
  CHOOSE id \in Identities : WriteVLBytes(id) = key_package.serialized_content

\* a register call has returned after its exchange with a well-formed response
RegisterGotResponse ==
  last.op = "register" /\ last.requests = 1 /\ last.response.ok

\* C11: a register call that gets AuthToken(T) returns a session holding T,
\* the client id embedded in its last-resort key package and cursor 0; with
\* any other response variant it returns UnexpectedResponse and no session.
C11_RegisterSeedsSession ==
  RegisterGotResponse =>
    IF last.response.val.tag = "AuthToken"
    THEN /\ last.result =
              Ok([client_id |->
                    EmbeddedIdentity(last.request.last_resort_key_package),
                  auth_token |-> last.response.val.token,
                  last_seen_message_sequence_number |-> 0])
         /\ Len(sessions) = last.pre.sessions + 1
         /\ sessions[Len(sessions)] = last.result.val
    ELSE /\ last.result = Err([type |-> "UnexpectedResponse"])
         /\ Len(sessions) = last.pre.sessions

\* a second registration, for another identity and with another token than
\* the first, has produced its session
C11_Witness ==
  /\ RegisterGotResponse
  /\ last.result.ok
  /\ Len(sessions) = 2
  /\ sessions[1].client_id # sessions[2].client_id
  /\ sessions[1].auth_token # sessions[2].auth_token

\* register was called with a key package whose credential encodes an identity
RegisterWithIdentity ==
  /\ last.op = "register"
  /\ RegisterInput.body = "KeyPackage"
  /\ \E id \in Identities : WriteVLBytes(id) = RegisterInput.serialized_content

\* what register does with an identity it accepts: one request, and on
\* AuthToken a session for that identity with cursor 0
RegisterAccepted ==
  /\ last.requests = 1
  /\ (last.response.ok /\ last.response.val.tag = "AuthToken") =>
       /\ last.result.ok
       /\ last.result.val.client_id = EmbeddedIdentity(RegisterInput)
       /\ last.result.val.last_seen_message_sequence_number = 0

\* what register does with an identity it refuses: InvalidClientId, no request
RegisterRefused ==
  /\ last.requests = 0
  /\ ~last.result.ok
  /\ last.result.err.type = "InvalidClientId"
  /\ Len(sessions) = last.pre.sessions

\* C12 as stated: register accepts the embedded identity exactly when its
\* length is at or under the identifier maximum (UUID_LENGTH), so the 2-byte
\* identity 0x0102 yields a session, and one byte over the maximum is refused
\* before any request.
C12_AcceptsAtOrUnderMaximum ==
  RegisterWithIdentity =>
    IF Len(EmbeddedIdentity(RegisterInput)) <= UUID_LENGTH
    THEN RegisterAccepted ELSE RegisterRefused

\* C12 as amended: register accepts the embedded identity exactly when its
\* length is UUID_LENGTH; a shorter identity (0x0102) and one a byte longer
\* are refused with InvalidClientId before any request.
C12_AcceptsExactlyUuidLength ==
  RegisterWithIdentity =>
    IF Len(EmbeddedIdentity(RegisterInput)) = UUID_LENGTH
    THEN RegisterAccepted ELSE RegisterRefused

\* register has refused the identity 0x0102
C12_Witness ==
  /\ RegisterWithIdentity
  /\ EmbeddedIdentity(RegisterInput) = <<1, 2>>
  /\ last.result = Err([type |-> "InvalidClientId", cause |-> [type |-> "InvalidUuid"]])

\* the operations of ApiClient that send a request
RegisteredOnly ==
  {"upload_key_packages", "list_clients", "create_group", "fetch_key_package",
   "distribute_group_message", "distribute_welcome", "fetch_messages",
   "delete_group", "delete_client"}

\* requests that carry the credentials of the session that sends them
WithCredentials ==
  {"upload_key_packages", "create_group", "distribute_group_message",
   "fetch_messages", "delete_group", "delete_client"}

\* every request in flight for a Registered-only operation was sent by a
\* session, with that session's credentials where the request carries them
SentBySessions ==
  \A c \in BagToSet(calls) :
    c.op # "register" =>
      /\ c.op \in RegisteredOnly
      /\ c.owner \in 1..Len(sessions)
      /\ c.op \in WithCredentials =>
           c.request.credentials = client_credentials(sessions[c.owner])

\* a session comes into being only as the result of a register call that got
\* an AuthToken response, and a register call that fails adds none
SessionsFromRegister ==
  /\ sessions' # sessions /\ Len(sessions') # Len(sessions) =>
       /\ Len(sessions') = Len(sessions) + 1
       /\ last'.op = "register"
       /\ last'.requests = 1
       /\ last'.response.ok
       /\ last'.response.val.tag = "AuthToken"
       /\ last'.result.ok
  /\ (last' # last /\ last'.op = "register" /\ ~last'.result.ok) =>
       sessions' = sessions

\* C13: starting from a handle with no session, no request of a Registered-
\* only operation is sent before a register call has completed with an
\* AuthToken response, and a failed register leaves the handle without a
\* session.
C13_Gating ==
  /\ Len(sessions) = 0
  /\ [](Len(sessions) = 0 => \A c \in BagToSet(calls) : c.op = "register")
  /\ []SentBySessions
  /\ [][SessionsFromRegister]_vars

\* after one successful registration a second register call has failed with
\* UnexpectedResponse, and there is still exactly one session
C13_Witness ==
  /\ last.op = "register"
  /\ last.requests = 1
  /\ last.result = Err([type |-> "UnexpectedResponse"])
  /\ Len(sessions) = 1

\* a step that adds a session adds, after the sessions there were, one that
\* holds the token of the AuthToken response just received and cursor 0
OwnRegistration ==
  Len(sessions') # Len(sessions) =>
    /\ Len(sessions') = Len(sessions) + 1
    /\ SubSeq(sessions', 1, Len(sessions)) = sessions
    /\ last'.op = "register"
    /\ last'.response.ok
    /\ last'.response.val.tag = "AuthToken"
    /\ sessions'[Len(sessions')].auth_token = last'.response.val.token
    /\ cursor(sessions'[Len(sessions')]) = 0

\* a step changes a session only by returning from a call on that session
OwnCallsOnly ==
  \A s \in 1..Len(sessions) :
    sessions'[s] # sessions[s] =>
      /\ last' # last
      /\ last'.op \in RegisteredOnly
      /\ last'.requests = 1
      /\ last'.owner = s

\* C14: the sessions registered from one handle are independent: each starts
\* with the token of its own registration response and cursor 0, and a call
\* on one session leaves the client id, token and cursor of the others as
\* they were.
C14_IndependentSessions ==
  [][OwnRegistration /\ OwnCallsOnly]_vars

\* two sessions with different tokens: a fetch on the first has advanced its
\* cursor, the cursor of the second is still 0
C14_Witness ==
  /\ Len(sessions) = 2
  /\ sessions[1].auth_token # sessions[2].auth_token
  /\ last.op = "fetch_messages"
  /\ last.owner = 1
  /\ cursor(last.pre) = 0
  /\ cursor(sessions[1]) = 1
  /\ cursor(sessions[2]) = 0

\* the errors of local validation
LocalValidationErrors == {"InvalidInput", "InvalidClientId"}

\* every call in flight has sent one request
OneRequestInFlight == \A c \in BagToSet(calls) : c.sent = 1

\* a call that returned sent one request and consumed one reply, or failed
\* its local validation and sent none
OneRequestPerCall ==
  last # NoCall =>
    IF ~last.result.ok /\ last.result.err.type \in LocalValidationErrors
    THEN last.requests = 0 /\ last.reply = NoReply
    ELSE last.requests = 1 /\ last.reply # NoReply

\* the step in which a call returns takes that call out of the calls in
\* flight and starts no other, whatever the call returns
NoRetry ==
  (last' # last /\ last' # NoCall) =>
    IF last'.requests = 0 THEN calls' = calls
    ELSE \E c \in BagToSet(calls) :
           /\ c.op = last'.op
           /\ c.owner = last'.owner
           /\ c.request = last'.request
           /\ calls' = calls (-) SetToBag({c})

\* C15: a call that passes its local validation sends exactly one request and
\* consumes exactly one reply, is not sent again when it fails, and a call
\* that fails local validation sends none.
C15_OneExchangePerCall ==
  /\ [](OneRequestInFlight /\ OneRequestPerCall)
  /\ [][NoRetry]_vars

\* a call has failed with a transport error after its one request, and no
\* call is in flight
C15_Witness ==
  /\ last # NoCall
  /\ last.requests = 1
  /\ last.reply.kind = "send_failed"
  /\ ~last.result.ok
  /\ last.op = "fetch_messages"
  /\ calls = EmptyBag

\* C16: distribute_welcome with a message that is no Welcome returns
\* InvalidInput and sends nothing; with a Welcome it sends one
\* DistributeWelcome request carrying that message.
C16_WelcomeOnly ==
  /\ \A c \in BagToSet(calls) :
       c.op = "distribute_welcome" =>
         /\ c.sent = 1
         /\ c.request.variant = "DistributeWelcome"
         /\ c.request.message.body = "Welcome"
  /\ last.op = "distribute_welcome" =>
       IF last.requests = 0
       THEN /\ last.input.body # "Welcome"
            /\ last.result = Err([type |-> "InvalidInput"])
       ELSE /\ last.requests = 1
            /\ last.request = [variant |-> "DistributeWelcome",
                               message |-> WelcomeMessage]

\* distribute_welcome has refused a private message while another call of the
\* session is in flight
C16_Witness ==
  /\ last.op = "distribute_welcome"
  /\ last.requests = 0
  /\ last.input = PrivateMessage
  /\ last.result = Err([type |-> "InvalidInput"])
  /\ BagCardinality(calls) = 1

\* the message and group info a distribute_group_message call was given
GroupMessageInput ==
  IF last.requests = 0 THEN last.input ELSE last.request.message

\* a message that is no public or private group message, or a commit that
\* comes without its group info
InvalidGroupMessage(input) ==
  \/ input.message.body \notin {"PublicMessage", "PrivateMessage"}
  \/ /\ input.message.body = "PublicMessage"
     /\ input.message.content_type = "commit"
     /\ ~input.group_info_option.some

MalformedEnvelope ==
  /\ Exchanged
  /\ last.reply.kind = "received"
  /\ last.reply.status = STATUS_OK
  /\ last.reply.body \in Malformed

\* C18: a status-OK body that is no well-formed response envelope (cut
\* short, a discriminant outside 0..4, or bytes left over) makes the
\* operation fail with SendMessageError::PayloadSerializationError; it is
\* never a valid response, an UnexpectedResponse or a failure reported by
\* the DS.
C18_MalformedEnvelopeIsPayloadError ==
  MalformedEnvelope =>
    /\ ~last.response.ok
    /\ last.response.err.type = "PayloadSerializationError"
    /\ ~last.result.ok
    /\ last.result.err.type \notin {"UnexpectedResponse", "MinimalDsError"}
    /\ last.result.err.cause = last.response.err

\* an operation got the Ok envelope followed by one more byte
C18_Witness ==
  /\ MalformedEnvelope
  /\ last.reply.body = <<0, 0>>
  /\ last.result.err.cause =
       [type |-> "PayloadSerializationError", codec |-> "TrailingData"]

\* C19: every envelope starts with one discriminant byte given by the
\* variant's position in the enum declaration, followed by the variant's
\* encoding: requests RegisterClient=0, UploadKeyPackages=1, ListClients=2,
\* CreateGroup=3, FetchKeyPackage=4, DistributeGroupMessage=5,
\* DistributeWelcome=6, FetchMessages=7, DeleteGroup=8, DeleteClient=9;
\* responses Ok=0, AuthToken=1, KeyPackageOption=2, FetchMessages=3,
\* ListClients=4; and each operation sends the discriminant of its own
\* request variant.
C19_Discriminants ==
  LET RequestOf(op) ==
        CASE op = "register" -> <<0>>
          [] op = "upload_key_packages" -> <<1>>
          [] op = "list_clients" -> <<2>>
          [] op = "create_group" -> <<3>>
          [] op = "fetch_key_package" -> <<4>>
          [] op = "distribute_group_message" -> <<5>>
          [] op = "distribute_welcome" -> <<6>>
          [] op = "fetch_messages" -> <<7>>
          [] op = "delete_group" -> <<8>>
          [] op = "delete_client" -> <<9>>
      ResponseOf(tag) ==
        CASE tag = "Ok" -> 0
          [] tag = "AuthToken" -> 1
          [] tag = "KeyPackageOption" -> 2
          [] tag = "FetchMessages" -> 3
          [] tag = "ListClients" -> 4
  IN /\ \A c \in BagToSet(calls) :
          MinimalDsMessageOutSerialize(c.request).discriminant = RequestOf(c.op)
     /\ Exchanged =>
          MinimalDsMessageOutSerialize(last.request).discriminant
            = RequestOf(last.op)
     /\ (Exchanged /\ last.response.ok) =>
          /\ last.reply.body[1] = ResponseOf(last.response.val.tag)
          /\ MinimalDsResponseSerialize(last.response.val) = last.reply.body

\* a delete_client call was answered with a ListClients envelope
C19_Witness ==
  /\ Exchanged
  /\ last.op = "delete_client"
  /\ MinimalDsMessageOutSerialize(last.request).discriminant = <<9>>
  /\ last.response.ok
  /\ last.response.val.tag = "ListClients"
  /\ last.reply.body[1] = 4

\* C20: TlsUuid's encoding is exactly the identifier's UUID_LENGTH raw
\* bytes with no length prefix; decoding fewer than UUID_LENGTH bytes fails
\* with EndOfStream; decoding n >= UUID_LENGTH bytes yields the first
\* UUID_LENGTH bytes as the identifier and the other n - UUID_LENGTH bytes as
\* the remainder; decoding an encoding gives the identifier back with an
\* empty remainder.
C20_TlsUuidCodec ==
  /\ last.op = "tls_serialize" =>
       /\ Len(last.written) = UUID_LENGTH
       /\ \A i \in 1..UUID_LENGTH : last.written[i] = last.id[i]
  /\ last.op = "tls_deserialize_bytes" =>
       IF Len(last.bytes) < UUID_LENGTH
       THEN last.result = Err("EndOfStream")
       ELSE /\ last.result.ok
            /\ Len(last.result.val) = UUID_LENGTH
            /\ Len(last.result.rest) = Len(last.bytes) - UUID_LENGTH
            /\ last.result.val \o last.result.rest = last.bytes
  /\ (last.op = "tls_deserialize_bytes" /\ last.after.op = "tls_serialize") =>
       last.result = Parsed(last.after.id, <<>>)

\* an identifier whose bytes all differ was written and read back
C20_Witness ==
  /\ last.op = "tls_deserialize_bytes"
  /\ last.after.op = "tls_serialize"
  /\ last.result = Parsed([i \in 1..UUID_LENGTH |-> i], <<>>)

\* a step that changes the cursor of a session is the return of a
\* fetch_messages call on that session whose reply was a FetchMessages
\* response
CursorMovesOnFetchResponse ==
  \A s \in 1..Len(sessions) :
    cursor(sessions'[s]) # cursor(sessions[s]) =>
      /\ last' # last
      /\ last'.op = "fetch_messages"
      /\ last'.owner = s
      /\ last'.requests = 1
      /\ last'.reply.kind = "received"
      /\ last'.reply.status = STATUS_OK
      /\ last'.response.ok
      /\ last'.response.val.tag = "FetchMessages"

\* a call of another operation has returned and its session, which is still
\* there, has the cursor it had before
OtherCallsKeepCursor ==
  (Exchanged /\ last.op \in RegisteredOnly \ {"fetch_messages"}) =>
    /\ last.owner \in 1..Len(sessions)
    /\ cursor(sessions[last.owner]) = cursor(last.pre)

\* C21: the cursor changes only in the step where fetch_messages processes
\* a received FetchMessages response; sending a request, completing any
\* other operation (delete_client of the session's own id included, after
\* which the session is still there) and abandoning a call leave it as it
\* was.
C21_CursorFrame ==
  /\ [][CursorMovesOnFetchResponse]_vars
  /\ []OtherCallsKeepCursor

\* a session whose cursor has advanced has deleted its own client id, and
\* still has that cursor
C21_Witness ==
  /\ Exchanged
  /\ last.op = "delete_client"
  /\ last.request.client_id = last.pre.client_id
  /\ last.result.ok
  /\ cursor(last.pre) > 0
  /\ sessions[last.owner] = last.pre

\* a step leaves the client id and the token of every session as they were
CredentialsFixed ==
  /\ Len(sessions') >= Len(sessions)
  /\ \A s \in 1..Len(sessions) :
       /\ sessions'[s].client_id = sessions[s].client_id
       /\ sessions'[s].auth_token = sessions[s].auth_token

\* a step that adds a session gives it the client id of the key package the
\* register call was made with and the token of the response it received
RegisteredPair ==
  Len(sessions') > Len(sessions) =>
    /\ last'.op = "register"
    /\ sessions'[Len(sessions')].client_id =
         EmbeddedIdentity(last'.request.last_resort_key_package)
    /\ sessions'[Len(sessions')].auth_token = last'.response.val.token

\* every request that carries credentials, in flight or answered, carries the
\* client id and the token of the session it was sent from
CarriesOwnPair ==
  /\ \A c \in BagToSet(calls) :
       c.op \in WithCredentials =>
         c.request.credentials =
           [client_id |-> sessions[c.owner].client_id,
            token |-> sessions[c.owner].auth_token]
  /\ (Exchanged /\ last.op \in WithCredentials) =>
       /\ last.request.credentials =
            [client_id |-> last.pre.client_id, token |-> last.pre.auth_token]
       /\ last.request.credentials =
            [client_id |-> sessions[last.owner].client_id,
             token |-> sessions[last.owner].auth_token]

\* C22: a session's client_id and auth_token never change after
\* registration, and every request that carries credentials carries exactly
\* the client id derived at registration and the token received in the
\* registration response.
C22_CredentialsImmutable ==
  /\ [][CredentialsFixed /\ RegisteredPair]_vars
  /\ []CarriesOwnPair

\* the second of two sessions with different ids and tokens, its cursor
\* advanced by a fetch, has had a delete_group request answered
C22_Witness ==
  /\ Len(sessions) = 2
  /\ sessions[1].client_id # sessions[2].client_id
  /\ sessions[1].auth_token # sessions[2].auth_token
  /\ Exchanged
  /\ last.op = "delete_group"
  /\ last.owner = 2
  /\ cursor(sessions[2]) > 0
  /\ last.request.credentials.token = sessions[2].auth_token

\* a fetch_messages call in flight is the only call in flight on its session
FetchAlone ==
  \A c \in BagToSet(calls) :
    c.op = "fetch_messages" =>
      /\ CallsOf(c.owner) = {c}
      /\ CopiesIn(c, calls) = 1

\* a fetch request in flight asks for the messages after the cursor its
\* session has now, at most 100 of them
FetchAsksAfterCursor ==
  \A c \in BagToSet(calls) :
    c.op = "fetch_messages" =>
      /\ c.request.last_seen_sequence_number = cursor(sessions[c.owner])
      /\ c.request.number_of_messages = 100

\* the session a fetch response was applied to had the cursor the request
\* carried
FetchAppliedAtCursor ==
  (Exchanged /\ last.op = "fetch_messages") =>
    /\ last.request.last_seen_sequence_number = cursor(last.pre)
    /\ last.request.number_of_messages = 100

\* C23: fetch_messages borrows the session exclusively, so at most one fetch
\* per session is in flight and no other operation of that session overlaps
\* it; every fetch request carries the session's cursor at send time and
\* number_of_messages = 100, and the cursor still has that value when the
\* response is applied.
C23_FetchExclusive ==
  FetchAlone /\ FetchAsksAfterCursor /\ FetchAppliedAtCursor

\* a fetch sent after the cursor had advanced to 3 got a FetchMessages
\* response
C23_Witness ==
  /\ Exchanged
  /\ last.op = "fetch_messages"
  /\ last.request.last_seen_sequence_number = 3
  /\ cursor(last.pre) = 3
  /\ last.response.ok
  /\ last.response.val.tag = "FetchMessages"

====
